---- MODULE Spec2Model ----
(***************************************************************************)
(* Model of src/rotatingCaliper.ts: the minimum-area oriented bounding    *)
(* rectangle of a convex polygon by rotating calipers.                     *)
(*                                                                         *)
(* Numbers.  The inputs are points with small integer coordinates, so      *)
(* every dot product of the code is an exact integer in a double, and      *)
(* every quotient the code forms (area, sinThetaSqr) is one correctly      *)
(* rounded division of two exact integers.  Two such quotients are equal   *)
(* doubles exactly when they are equal rationals (distinct rationals with  *)
(* numerators and denominators this small differ by far more than one      *)
(* ulp), so a quotient is kept as the pair [n, d] and compared by cross    *)
(* multiplication.  d = 0 with n = 0 is the NaN of 0/0.                    *)
(*                                                                         *)
(* Indices are 0-based as in the source: Vertex(V, j) is vertices[j], and  *)
(* At(s, k) is s[k] of a JavaScript array kept as a TLA+ sequence.         *)
(***************************************************************************)
EXTENDS Integers, Sequences, FiniteSets, TLC

\* Bounds of the model: coordinates range over 0..MaxCoord and polygons
\* have at most MaxN vertices.
MaxCoord == 2
MaxN == 4

VARIABLES
    hull,       \* the argument of the current call (sequence of points)
    call,       \* 1: first call, 2: second call, on a cyclic shift of the first hull
    first,      \* what the first call returned (kept by the caller)
    pc,         \* position inside rotatingCaliper
    visited,    \* visited[] (line 23)
    minBox,     \* best box so far (lines 25, 40)
    box,        \* working box (line 28)
    angleInfo,  \* AngleInfo[4] buffer (line 29); it lives for the whole call
    angleNum,   \* angleNum.value (line 30)
    sort,       \* result of sortAngles (line 35)
    i,          \* loop counter (line 31)
    stop,       \* why the loop was left: "none", "noAngles", "visited", "count"
    bottoms,    \* history: index[0] of every accepted box, in order
    outcome,    \* "none", "returned", "TypeError"
    result      \* the returned record (lines 62-67)

vars == <<hull, call, first, pc, visited, minBox, box, angleInfo, angleNum,
          sort, i, stop, bottoms, outcome, result>>

----------------------------------------------------------------------------
\* Vector2 arithmetic (three.js) on points <<x, y>>.

X(p) == p[1]
Y(p) == p[2]
Sub(a, b) == <<X(a) - X(b), Y(a) - Y(b)>>
Dot(a, b) == X(a) * X(b) + Y(a) * Y(b)
Negate(a) == <<-X(a), -Y(a)>>

\* Faulty variant of Perp: the vector is turned clockwise.
Perp_clockwise(a) == <<Y(a), -X(a)>>

\* (-y, x): lines 82, 160, 180.
Perp(a) == <<-Y(a), X(a)>>

Abs(x) == IF x < 0 THEN -x ELSE x

\* vertices[j]
Vertex(V, j) == V[j + 1]

\* s[k] of a JavaScript array
At(s, k) == s[k + 1]

\* A quotient n / d of two exact integers.
Rat(n, d) == [n |-> n, d |-> d]
IsNaN(a) == a.d = 0
RatEq(a, b) == ~IsNaN(a) /\ ~IsNaN(b) /\ a.n * b.d = b.n * a.d
RatLt(a, b) == ~IsNaN(a) /\ ~IsNaN(b) /\ a.n * b.d < b.n * a.d

\* Faulty variant of RatLeq: < for <=, which keeps the first of several
\* boxes of equal area.
RatLeq_strict(a, b) == RatLt(a, b)

\* box.area <= minBox.area (line 39); every denominator is a squared length.
RatLeq(a, b) == ~IsNaN(a) /\ ~IsNaN(b) /\ a.n * b.d <= b.n * a.d

----------------------------------------------------------------------------
\* Inputs.

Points == (0..MaxCoord) \X (0..MaxCoord)

Cross(a, b, c) == X(Sub(b, a)) * Y(Sub(c, a)) - Y(Sub(b, a)) * X(Sub(c, a))

\* The documented precondition (lines 5-6): counter-clockwise, strictly
\* convex, no three collinear vertices, at least 3 vertices: every vertex
\* lies strictly to the left of every edge it is not an end of.
IsConvexCCW(V) ==
    /\ Len(V) >= 3
    /\ \A e \in 1..Len(V) : \A k \in 1..Len(V) :
          LET f == (e % Len(V)) + 1
          IN  (k # e /\ k # f) => Cross(V[e], V[f], V[k]) > 0

\* An open chain that can still be closed to a convex polygon.
ChainOK(V) ==
    \A e \in 1..(Len(V) - 1) : \A k \in 1..Len(V) :
        (k # e /\ k # e + 1) => Cross(V[e], V[e + 1], V[k]) > 0

RECURSIVE Chains(_)
Chains(k) ==
    IF k = 1 THEN {<<p>> : p \in Points}
    ELSE {t \in {Append(s, p) : s \in Chains(k - 1), p \in Points} : ChainOK(t)}

Polygons == UNION {{V \in Chains(k) : IsConvexCCW(V)} : k \in 3..MaxN}

\* Calls with fewer than 3 points.
ShortInputs == UNION {[1..k -> Points] : k \in 0..2}

\* The concrete scenarios of the specification.
Square2 == <<<<0, 0>>, <<2, 0>>, <<2, 2>>, <<0, 2>>>>
Triangle345 == <<<<0, 0>>, <<4, 0>>, <<0, 3>>>>

Inputs == Polygons \cup ShortInputs \cup {Square2, Triangle345}

\* The vertex sequence started s places later.
Shift(V, s) == [k \in 1..Len(V) |-> V[((k - 1 + s) % Len(V)) + 1]]

----------------------------------------------------------------------------
\* smallestBox (lines 172-212).

EmptyBox ==
    [u |-> <<<<0, 0>>, <<0, 0>>>>, index |-> <<0, 0, 0, 0>>,
     sqrLenU0 |-> 0, area |-> Rat(0, 0)]

\* One pass of the forEach callback (lines 188-206) on vertex number j.
ScanVertex(V, u, origin, st, j) ==
    LET diff == Sub(Vertex(V, j), origin)
        v == <<Dot(At(u, 0), diff), Dot(At(u, 1), diff)>>
        s1 == At(st.support, 1)
        s2 == At(st.support, 2)
        s3 == At(st.support, 3)
        hit1 == X(v) > X(s1) \/ (X(v) = X(s1) /\ Y(v) > Y(s1))
        hit2 == Y(v) > Y(s2) \/ (Y(v) = Y(s2) /\ X(v) < X(s2))
        hit3 == X(v) < X(s3) \/ (X(v) = X(s3) /\ Y(v) < Y(s3))
    IN  [index |-> <<At(st.index, 0),
                     IF hit1 THEN j ELSE At(st.index, 1),
                     IF hit2 THEN j ELSE At(st.index, 2),
                     IF hit3 THEN j ELSE At(st.index, 3)>>,
         support |-> <<At(st.support, 0),
                       IF hit1 THEN v ELSE s1,
                       IF hit2 THEN v ELSE s2,
                       IF hit3 THEN v ELSE s3>>]

RECURSIVE Scan(_, _, _, _, _)
Scan(V, u, origin, st, j) ==
    IF j = Len(V) THEN st
    ELSE Scan(V, u, origin, ScanVertex(V, u, origin, st, j), j + 1)

smallestBox(i0, i1, V) ==
    LET u0 == Sub(Vertex(V, i1), Vertex(V, i0))
        u == <<u0, Perp(u0)>>
        sqrLenU0 == Dot(u0, u0)
        st == Scan(V, u, Vertex(V, i1),
                   [index |-> <<i1, i1, i1, i1>>,
                    support |-> <<<<0, 0>>, <<0, 0>>, <<0, 0>>, <<0, 0>>>>], 0)
        scaledWidth == X(At(st.support, 1)) - X(At(st.support, 3))
        scaledHeight == Y(At(st.support, 2))
    IN  [u |-> u, index |-> st.index, sqrLenU0 |-> sqrLenU0,
         area |-> Rat(scaledWidth * scaledHeight, sqrLenU0)]

----------------------------------------------------------------------------
\* computeAngles (lines 71-92).

\* An unassigned slot of `new Array(4)` (line 29).
Hole == [sinThetaSqr |-> Rat(0, 1), indexOfBox |-> -1]
IsSet(a) == a.indexOfBox # -1

\* array a with a[k] = x
Put(a, k, x) == [a EXCEPT ![k + 1] = x]

\* The body of the loop of line 73 for one pair (k0, k1).  Vector2.negate()
\* negates the vector it is called on and returns it, so line 75 leaves
\* box.u[k0 & 1] negated for the sides k0 = 2 and k0 = 3.
AngleOfSide(V, st, k0, k1) ==
    IF At(st.box.index, k0) = At(st.box.index, k1) THEN st
    ELSE
        LET a == k0 % 2
            u == IF k0 \in {2, 3}
                 THEN Put(st.box.u, a, Negate(At(st.box.u, a)))
                 ELSE st.box.u
            d == At(u, a)
            j0 == At(st.box.index, k0)
            j1 == IF j0 + 1 = Len(V) THEN 0 ELSE j0 + 1
            e == Sub(Vertex(V, j1), Vertex(V, j0))
            dp == Dot(Perp(e), d)
            sinThetaSqr == Rat(dp * dp, Dot(e, e) * Dot(d, d))
        IN  [box |-> [st.box EXCEPT !.u = u],
             angleInfo |-> Put(st.angleInfo, st.angleNum,
                               [sinThetaSqr |-> sinThetaSqr, indexOfBox |-> k0]),
             angleNum |-> st.angleNum + 1]

computeAngles(V, b, info) ==
    LET s0 == [box |-> b, angleInfo |-> info, angleNum |-> 0]
        s1 == AngleOfSide(V, s0, 3, 0)
        s2 == AngleOfSide(V, s1, 0, 1)
        s3 == AngleOfSide(V, s2, 1, 2)
    IN  AngleOfSide(V, s3, 2, 3)

----------------------------------------------------------------------------
\* sortAngles (lines 94-109).

Sign(x) == IF x < 0 THEN -1 ELSE IF x > 0 THEN 1 ELSE 0

\* The comparator of lines 99-107, as the sign of what it returns.
Compare(info, num, a, b) ==
    LET sa == At(info, a).sinThetaSqr
        sb == At(info, b).sinThetaSqr
    IN  IF num < 4 /\ RatEq(sa, sb)
        THEN Sign(At(info, b).indexOfBox - At(info, a).indexOfBox)
        ELSE Sign(sa.n * sb.d - sb.n * sa.d)

\* Array.prototype.sort is stable: x goes behind every element that does
\* not compare greater than it.
RECURSIVE Insert(_, _, _, _)
Insert(info, num, s, x) ==
    IF s = <<>> THEN <<x>>
    ELSE IF Compare(info, num, s[Len(s)], x) > 0
         THEN Append(Insert(info, num, SubSeq(s, 1, Len(s) - 1), x), s[Len(s)])
         ELSE Append(s, x)

RECURSIVE StableSort(_, _, _)
StableSort(info, num, s) ==
    IF s = <<>> THEN <<>>
    ELSE Insert(info, num, StableSort(info, num, SubSeq(s, 1, Len(s) - 1)), s[Len(s)])

\* angleInfo.map((a, index) => index) skips the holes of angleInfo and keeps
\* every assigned slot, whichever iteration assigned it; sort() then orders
\* the assigned slots (holes go last and are never read: at least angleNum
\* slots are assigned).
sortAngles(info, num) ==
    IF num = 0 THEN <<0, 1, 2, 3>>
    ELSE StableSort(info, num, SelectSeq(<<0, 1, 2, 3>>, LAMBDA k : IsSet(At(info, k))))

----------------------------------------------------------------------------
\* updateSupport (lines 113-170).

\* Lines 125-134: the first num entries of sort, in order; every one whose
\* sinThetaSqr equals the minimum advances its side's support vertex.
RECURSIVE AdvanceSupports(_, _, _, _, _, _, _)
AdvanceSupports(info, num, srt, n, minAngle, st, k) ==
    IF k >= num THEN st
    ELSE
        LET curAngle == At(info, At(srt, k))
            side == curAngle.indexOfBox
            nxt == IF At(st.index, side) + 1 = n THEN 0 ELSE At(st.index, side) + 1
        IN  IF RatEq(curAngle.sinThetaSqr, minAngle.sinThetaSqr)
            THEN AdvanceSupports(info, num, srt, n, minAngle,
                                 [index |-> Put(st.index, side, nxt),
                                  parallel |-> st.parallel + 1], k + 1)
            ELSE AdvanceSupports(info, num, srt, n, minAngle, st, k + 1)

\* Faulty variant of AlreadyProcessed: a processed edge is never recognised.
AlreadyProcessed_never(vis, bottom) == FALSE

\* if (visited[bottom]) (line 136)
AlreadyProcessed(vis, bottom) == At(vis, bottom)

\* Lines 141-143.
MarkVisited(vis, info, srt, index, parallel) ==
    [j \in 1..Len(vis) |->
        vis[j] \/ \E k \in 0..(parallel - 1) :
                     At(index, At(info, At(srt, k)).indexOfBox) = j - 1]

\* Faulty variant of BoxArea: the supports are read as they were before
\* they were cycled.
BoxArea_uncycled(V, u, index, sqrLen) ==
    Rat(Dot(At(u, 0), Sub(Vertex(V, At(index, 0)), Vertex(V, At(index, 2))))
          * Dot(At(u, 1), Sub(Vertex(V, At(index, 1)), Vertex(V, At(index, 3)))),
        sqrLen)

\* Lines 164-168.
BoxArea(V, u, index, sqrLen) ==
    Rat(Dot(At(u, 0), Sub(Vertex(V, At(index, 1)), Vertex(V, At(index, 3))))
          * Dot(At(u, 1), Sub(Vertex(V, At(index, 2)), Vertex(V, At(index, 0)))),
        sqrLen)

\* Lines 146-169: cycle the supports, recompute axes and area.
Rebase(V, index, side) ==
    LET nextIndex == [k \in 1..4 |-> At(index, (side + (k - 1)) % 4)]
        j1 == At(nextIndex, 0)
        j0 == IF j1 - 1 < 0 THEN Len(V) - 1 ELSE j1 - 1
        u0 == Sub(Vertex(V, j1), Vertex(V, j0))
        u == <<u0, Perp(u0)>>
    IN  [u |-> u, index |-> nextIndex, sqrLenU0 |-> Dot(u0, u0),
         area |-> BoxArea(V, u, nextIndex, Dot(u0, u0))]

updateSupport(info, num, srt, V, vis, b) ==
    LET minAngle == At(info, At(srt, 0))
        adv == AdvanceSupports(info, num, srt, Len(V), minAngle,
                               [index |-> b.index, parallel |-> 0], 0)
        bottom == At(adv.index, minAngle.indexOfBox)
    IN  IF AlreadyProcessed(vis, bottom)
        THEN [ok |-> FALSE, box |-> [b EXCEPT !.index = adv.index], visited |-> vis]
        ELSE [ok |-> TRUE,
              box |-> Rebase(V, adv.index, minAngle.indexOfBox),
              visited |-> MarkVisited(vis, info, srt, adv.index, adv.parallel)]

----------------------------------------------------------------------------
\* Final geometry (lines 43-67).
\*
\* width and height are kept as their squares and the angle as the vector
\* whose atan2 it is: width = sqrt(widthSqr), angle = atan2(Y(dir), X(dir)).
\* The center is rational: with L0 = |u0|^2 and L1 = |u1|^2,
\*   center = origin + u0 * t / L0 + u0 * |u0 . diff0| / (2 L0)
\*                   + u1 * |u1 . diff1| / (2 L1),   t = (lastSupport - origin) . u0
\* and is kept as <<X numerator, Y numerator, denominator>>.
\* Vector2.normalize() leaves the zero vector as it is.

NoResult ==
    [widthSqr |-> Rat(0, 0), heightSqr |-> Rat(0, 0), center |-> <<0, 0, 0>>,
     dir |-> <<0, 0>>]

Geometry(V, mb) ==
    LET u0 == At(mb.u, 0)
        u1 == At(mb.u, 1)
        L0 == Dot(u0, u0)
        L1 == Dot(u1, u1)
        lastSupport == Vertex(V, At(mb.index, 3))
        origin == Vertex(V, IF At(mb.index, 0) - 1 = -1 THEN Len(V) - 1
                                                        ELSE At(mb.index, 0) - 1)
        diff0 == Sub(Vertex(V, At(mb.index, 1)), Vertex(V, At(mb.index, 3)))
        diff1 == Sub(Vertex(V, At(mb.index, 2)), Vertex(V, At(mb.index, 0)))
        w == Abs(Dot(u0, diff0))
        h == Abs(Dot(u1, diff1))
        t == Dot(Sub(lastSupport, origin), u0)
    IN  IF L0 = 0 \/ L1 = 0
        THEN [widthSqr |-> Rat(0, 1), heightSqr |-> Rat(0, 1),
              center |-> <<X(origin), Y(origin), 1>>, dir |-> u0]
        ELSE [widthSqr |-> Rat(w * w, L0), heightSqr |-> Rat(h * h, L1),
              center |-> <<2 * L0 * L1 * X(origin) + 2 * L1 * X(u0) * t
                             + L1 * X(u0) * w + L0 * X(u1) * h,
                           2 * L0 * L1 * Y(origin) + 2 * L1 * Y(u0) * t
                             + L1 * Y(u0) * w + L0 * Y(u1) * h,
                           2 * L0 * L1>>,
              dir |-> u0]

----------------------------------------------------------------------------
\* The state machine: one call of rotatingCaliper, phase by phase, and a
\* second call by the same caller on a cyclic shift of the same polygon.

Locals ==
    /\ visited = <<>>
    /\ minBox = EmptyBox
    /\ box = EmptyBox
    /\ angleInfo = <<Hole, Hole, Hole, Hole>>
    /\ angleNum = 0
    /\ sort = <<>>
    /\ i = 0
    /\ stop = "none"
    /\ bottoms = <<>>
    /\ outcome = "none"
    /\ result = NoResult

Init ==
    /\ hull \in Inputs
    /\ call = 1
    /\ first = NoResult
    /\ pc = "call"
    /\ Locals

\* Lines 22-30.  With no vertex at all, vertices[0] is undefined and
\* subVectors (line 179) throws a TypeError.
Enter ==
    /\ pc = "call"
    /\ IF Len(hull) = 0
       THEN /\ outcome' = "TypeError"
            /\ pc' = "done"
            /\ UNCHANGED <<visited, minBox, box, bottoms>>
       ELSE LET b == smallestBox(Len(hull) - 1, 0, hull)
            IN  /\ minBox' = b
                /\ box' = b
                /\ visited' = [j \in 1..Len(hull) |-> j - 1 = At(b.index, 0)]
                /\ bottoms' = <<At(b.index, 0)>>
                /\ outcome' = "none"
                /\ pc' = "angles"
    /\ angleInfo' = <<Hole, Hole, Hole, Hole>>
    /\ angleNum' = 0
    /\ i' = 0
    /\ UNCHANGED <<hull, call, first, sort, stop, result>>

\* Lines 32-34.
ComputeAngles ==
    /\ pc = "angles"
    /\ LET r == computeAngles(hull, box, angleInfo)
       IN  /\ box' = r.box
           /\ angleInfo' = r.angleInfo
           /\ angleNum' = r.angleNum
           /\ IF r.angleNum > 0
              THEN pc' = "sort" /\ stop' = stop
              ELSE pc' = "extract" /\ stop' = "noAngles"
    /\ UNCHANGED <<hull, call, first, visited, minBox, sort, i, bottoms, outcome, result>>

\* Line 35.
SortAngles ==
    /\ pc = "sort"
    /\ sort' = sortAngles(angleInfo, angleNum)
    /\ pc' = "update"
    /\ UNCHANGED <<hull, call, first, visited, minBox, box, angleInfo, angleNum,
                   i, stop, bottoms, outcome, result>>

\* Lines 36-42, and the loop test of line 31 for the next round.
UpdateSupport ==
    /\ pc = "update"
    /\ LET r == updateSupport(angleInfo, angleNum, sort, hull, visited, box)
       IN  /\ box' = r.box
           /\ visited' = r.visited
           /\ IF ~r.ok
              THEN /\ pc' = "extract"
                   /\ stop' = "visited"
                   /\ UNCHANGED <<minBox, i, bottoms>>
              ELSE /\ minBox' = IF RatLeq(r.box.area, minBox.area) THEN r.box ELSE minBox
                   /\ i' = i + 1
                   /\ bottoms' = Append(bottoms, At(r.box.index, 0))
                   /\ IF i + 1 < Len(hull)
                      THEN pc' = "angles" /\ stop' = stop
                      ELSE pc' = "extract" /\ stop' = "count"
    /\ UNCHANGED <<hull, call, first, angleInfo, angleNum, sort, outcome, result>>

\* Lines 43-67.
Extract ==
    /\ pc = "extract"
    /\ result' = Geometry(hull, minBox)
    /\ outcome' = "returned"
    /\ first' = IF call = 1 THEN result' ELSE first
    /\ pc' = "done"
    /\ UNCHANGED <<hull, call, visited, minBox, box, angleInfo, angleNum, sort,
                   i, stop, bottoms>>

\* The caller calls again with the same polygon started at another vertex.
CallShifted ==
    /\ pc = "done"
    /\ call = 1
    /\ Len(hull) >= 3
    /\ \E s \in 1..(Len(hull) - 1) : hull' = Shift(hull, s)
    /\ call' = 2
    /\ pc' = "call"
    /\ visited' = <<>>
    /\ minBox' = EmptyBox
    /\ box' = EmptyBox
    /\ angleInfo' = <<Hole, Hole, Hole, Hole>>
    /\ angleNum' = 0
    /\ sort' = <<>>
    /\ i' = 0
    /\ stop' = "none"
    /\ bottoms' = <<>>
    /\ outcome' = "none"
    /\ result' = NoResult
    /\ UNCHANGED first

Next ==
    \/ Enter
    \/ ComputeAngles
    \/ SortAngles
    \/ UpdateSupport
    \/ Extract
    \/ CallShifted

Spec == Init /\ [][Next]_vars

----------------------------------------------------------------------------
\* Properties.

ValidInput == IsConvexCCW(hull)

N == Len(hull)
BestU0 == At(minBox.u, 0)
BestU1 == At(minBox.u, 1)
Support(k) == Vertex(hull, At(minBox.index, k))

\* The box whose bottom side is flush with the hull edge ending at vertex j.
EdgeBox(j) == smallestBox(IF j = 0 THEN N - 1 ELSE j - 1, j, hull)

\* C1: for a valid polygon the area of the best box retained at the end of
\* the sweep is the minimum over all hull edges of the area of the box
\* flush with that edge.
C1_BestAreaIsMinOverEdges ==
    (pc = "done" /\ ValidInput) =>
        /\ \E j \in 0..(N - 1) : RatEq(minBox.area, EdgeBox(j).area)
        /\ \A j \in 0..(N - 1) : RatLeq(minBox.area, EdgeBox(j).area)

\* C2: for a valid polygon every vertex lies inside the returned rectangle:
\* between the supports 3 and 1 along u0 and between the supports 0 and 2
\* along u1.
C2_Containment ==
    (pc = "done" /\ ValidInput) =>
        \A k \in 1..N :
            /\ Dot(BestU0, Support(3)) <= Dot(BestU0, hull[k])
            /\ Dot(BestU0, hull[k]) <= Dot(BestU0, Support(1))
            /\ Dot(BestU1, Support(0)) <= Dot(BestU1, hull[k])
            /\ Dot(BestU1, hull[k]) <= Dot(BestU1, Support(2))

\* C3: a call with fewer than 3 vertices ends in a validation error; it
\* neither returns a rectangle nor fails on an out-of-range vertex access.
C3_ShortInputRejected ==
    (pc = "done" /\ N < 3) => outcome = "ValidationError"

CenterEq(a, b) == a[1] * b[3] = b[1] * a[3] /\ a[2] * b[3] = b[2] * a[3]

\* C4: the call on a cyclic shift of a valid polygon returns the same
\* width, height, center and area (width x height) as the call on the
\* polygon itself.
C4_ShiftInvariance ==
    (pc = "done" /\ call = 2 /\ ValidInput) =>
        /\ RatEq(result.widthSqr, first.widthSqr)
        /\ RatEq(result.heightSqr, first.heightSqr)
        /\ CenterEq(result.center, first.center)
        /\ result.widthSqr.n * result.heightSqr.n * first.widthSqr.d * first.heightSqr.d
             = first.widthSqr.n * first.heightSqr.n * result.widthSqr.d * result.heightSqr.d

\* The segment from p to q lies on the line of one side of the best box.
OnBottom(p, q) == Dot(BestU1, p) = Dot(BestU1, Support(0)) /\ Dot(BestU1, q) = Dot(BestU1, Support(0))
OnTop(p, q) == Dot(BestU1, p) = Dot(BestU1, Support(2)) /\ Dot(BestU1, q) = Dot(BestU1, Support(2))
OnRight(p, q) == Dot(BestU0, p) = Dot(BestU0, Support(1)) /\ Dot(BestU0, q) = Dot(BestU0, Support(1))
OnLeft(p, q) == Dot(BestU0, p) = Dot(BestU0, Support(3)) /\ Dot(BestU0, q) = Dot(BestU0, Support(3))
OnSomeSide(p, q) == OnBottom(p, q) \/ OnTop(p, q) \/ OnRight(p, q) \/ OnLeft(p, q)

\* u and v are parallel.
Parallel(u, v) == X(u) * Y(v) - Y(u) * X(v) = 0

\* (width x height)^2 >= a^2 for the returned rectangle.
AreaAtLeast(a) ==
    result.widthSqr.n * result.heightSqr.n >= a * a * result.widthSqr.d * result.heightSqr.d

TriangleDone == pc = "done" /\ hull = Triangle345 /\ outcome = "returned"

\* C5 as stated: for the right triangle (0,0),(4,0),(0,3) one side of the
\* returned rectangle is collinear with the hypotenuse (4,0)-(0,3), and
\* width x height >= 12.
C5_HypotenuseSide ==
    TriangleDone =>
        /\ Parallel(BestU0, <<-4, 3>>) \/ Parallel(BestU1, <<-4, 3>>)
        /\ OnSomeSide(<<4, 0>>, <<0, 3>>)
        /\ AreaAtLeast(12)

\* C5 amended: for the right triangle (0,0),(4,0),(0,3) the bottom side of
\* the returned rectangle is collinear with the leg (0,0)-(4,0), u0 pointing
\* along the positive x-axis, the leg (0,0)-(0,3) lies on its left side, and
\* width x height >= 12.
C5_LegSide ==
    TriangleDone =>
        /\ Parallel(BestU0, <<4, 0>>) /\ X(BestU0) > 0
        /\ OnBottom(<<0, 0>>, <<4, 0>>)
        /\ OnLeft(<<0, 0>>, <<0, 3>>)
        /\ AreaAtLeast(12)

\* The triangle's sweep accepted the boxes of all three edges and returned.
C5_Witness == TriangleDone /\ call = 1 /\ Len(bottoms) = 3

SquareDone == pc = "done" /\ hull = Square2 /\ outcome = "returned"

SquareSize ==
    /\ RatEq(result.widthSqr, Rat(4, 1))
    /\ RatEq(result.heightSqr, Rat(4, 1))
    /\ CenterEq(result.center, <<1, 1, 1>>)

\* C6 as stated: for the square (0,0),(2,0),(2,2),(0,2) the call returns
\* width 2, height 2, center (1,1) and angle 0: u0 points along the
\* positive x-axis.
C6_SquareAngleZero ==
    SquareDone => (SquareSize /\ Y(result.dir) = 0 /\ X(result.dir) > 0)

\* C6 amended: for the square (0,0),(2,0),(2,2),(0,2) the call returns
\* width 2, height 2, center (1,1) and angle -pi/2: u0 points along the
\* negative y-axis.
C6_SquareAngleMinusHalfPi ==
    SquareDone => (SquareSize /\ X(result.dir) = 0 /\ Y(result.dir) < 0)

\* The square's call returned after its first updateSupport call stopped the sweep.
C6_Witness == SquareDone /\ call = 1 /\ stop = "visited"

Sin(k) == At(angleInfo, k).sinThetaSqr

\* C7: in every iteration on a valid polygon the candidate sortAngles puts
\* first is one that computeAngles emitted in this iteration (one of the
\* first angleNum slots), and no candidate of this iteration has a smaller
\* sinThetaSqr.
C7_SelectedIsCurrentMinimum ==
    (pc = "update" /\ ValidInput) =>
        /\ At(sort, 0) < angleNum
        /\ \A k \in 0..(angleNum - 1) : RatLeq(Sin(At(sort, 0)), Sin(k))

\* C8: in every state of the working box during a call on a valid polygon
\* (after smallestBox, after each computeAngles, after each updateSupport)
\* u1 is u0 turned by +90 degrees.
C8_AxesPerpendicular ==
    (ValidInput /\ pc \in {"angles", "sort", "update", "extract"}) =>
        At(box.u, 1) = <<-Y(At(box.u, 0)), X(At(box.u, 0))>>

\* The area the working box's current supports and axes imply.
ImpliedArea ==
    Rat(Dot(At(box.u, 0), Sub(Vertex(hull, At(box.index, 1)), Vertex(hull, At(box.index, 3))))
          * Dot(At(box.u, 1), Sub(Vertex(hull, At(box.index, 2)), Vertex(hull, At(box.index, 0)))),
        box.sqrLenU0)

\* C9 as stated: after smallestBox and after every updateSupport call on a
\* valid polygon, whether it returned true or false, box.area is the area
\* implied by the current index array and axes.
C9_AreaNeverStale ==
    (ValidInput /\ (pc = "angles" \/ (pc = "extract" /\ stop \in {"visited", "count"}))) =>
        RatEq(box.area, ImpliedArea)

\* C9 amended: after smallestBox and after every updateSupport call that
\* returned true, box.area is the area implied by the current index array
\* and axes.
C9_AreaFreshAfterSuccess ==
    (ValidInput /\ (pc = "angles" \/ (pc = "extract" /\ stop = "count"))) =>
        RatEq(box.area, ImpliedArea)

\* A working box after the second successful updateSupport call, not the best one.
C9_Witness == ValidInput /\ pc = "angles" /\ i >= 2 /\ ~RatEq(box.area, minBox.area)

\* The bottom vertex the pending updateSupport call would move to.
PendingBottom ==
    LET minAngle == At(angleInfo, At(sort, 0))
    IN  At(AdvanceSupports(angleInfo, angleNum, sort, N, minAngle,
                           [index |-> box.index, parallel |-> 0], 0).index,
           minAngle.indexOfBox)

Distinct(s) == \A a, b \in 1..Len(s) : a # b => s[a] # s[b]

\* C10: within one call the bottom vertices of the accepted boxes (the
\* initial box and every box of an updateSupport call that returned true)
\* are pairwise distinct, and the sweep stops, accepting nothing more, at
\* the first updateSupport call whose new bottom vertex is already visited.
C10_EachBottomOnce ==
    /\ [](Distinct(bottoms))
    /\ [][(pc = "update" /\ visited[PendingBottom + 1])
            => (pc' = "extract" /\ bottoms' = bottoms /\ minBox' = minBox)]_vars

\* A sweep that accepted four boxes and was then stopped by a visited bottom.
C10_Witness == ValidInput /\ stop = "visited" /\ pc = "extract" /\ Len(bottoms) >= 4

====
